---------------------------- MODULE Spec2Model ----------------------------
(***************************************************************************)
(* ScaleKernel (gpytorch/kernels/scale_kernel.py): a kernel decorator that *)
(* multiplies the base kernel's covariance by a positive outputscale, kept *)
(* as an unconstrained parameter raw_outputscale behind a constraint.      *)
(*                                                                         *)
(* Numbers.  Raw (unconstrained) values are the integers -MaxRaw..MaxRaw.  *)
(* Constrained values are fixed-point numbers counted in units of 1/Unit,  *)
(* Unit = 2^MaxRaw, so that 1.0 is Unit and the smallest positive value    *)
(* the constraint produces is 1 unit.  Covariance entries of the base      *)
(* kernel are plain integers, so a scaled entry is again in units of       *)
(* 1/Unit.                                                                 *)
(*                                                                         *)
(* Tensors are records [shape, data]: shape a sequence of sizes, data the  *)
(* entries in row-major order (a 0-dimensional tensor has shape <<>> and   *)
(* one entry).  Covariance results carry a kind, "dense" or "lazy".        *)
(***************************************************************************)
EXTENDS Integers, Sequences, FiniteSets, TLC

\* Raw parameter values range over -MaxRaw..MaxRaw.
MaxRaw == 2
\* batch_shape is empty, <<b>> with b in 1..MaxBatch, or <<1, MaxBatch>>; so
\* is the inputs' batch.
MaxBatch == 2
\* Number of data points n (rows of x1) and m (rows of x2), 1..MaxN.
MaxN == 3
\* Size d of the inputs' trailing dimension, 1..MaxD.
MaxD == 2

VARIABLES
    batch_shape,                \* Kernel.batch_shape, fixed at construction
    base_kernel,                \* self.base_kernel
    raw_outputscale_constraint, \* the registered constraint
    raw_outputscale,            \* the parameter tensor
    last,                       \* the latest call and what the caller saw
    hist                        \* where the current scale comes from

vars == <<batch_shape, base_kernel, raw_outputscale_constraint,
          raw_outputscale, last, hist>>

---------------------------------------------------------------------------
\* Tensor runtime (torch semantics used by the kernel).

RECURSIVE Prod(_)
Prod(s) == IF s = <<>> THEN 1 ELSE Head(s) * Prod(Tail(s))

Ones(n) == [i \in 1..n |-> 1]

Max(a, b) == IF a >= b THEN a ELSE b

PadLeft(s, n) == Ones(n - Len(s)) \o s

\* torch broadcasting: shapes are right-aligned; sizes must agree or be 1.
Broadcastable(a, b) ==
    LET n  == Max(Len(a), Len(b))
        pa == PadLeft(a, n)
        pb == PadLeft(b, n)
    IN  \A i \in 1..n : pa[i] = pb[i] \/ pa[i] = 1 \/ pb[i] = 1

BroadcastShape(a, b) ==
    LET n  == Max(Len(a), Len(b))
        pa == PadLeft(a, n)
        pb == PadLeft(b, n)
    IN  [i \in 1..n |-> IF pa[i] = 1 THEN pb[i] ELSE pa[i]]

RECURSIVE Strides(_)
\* Row-major strides of a contiguous tensor of shape s.
Strides(s) ==
    IF s = <<>> THEN <<>> ELSE <<Prod(Tail(s))>> \o Strides(Tail(s))

\* Strides with which a tensor of shape s is read as one of rank n that it
\* broadcasts to: 0 along the axes it lacks and along its axes of size 1.
BroadcastStrides(s, n) ==
    LET st == Strides(s)
    IN  [i \in 1..(n - Len(s)) |-> 0]
            \o [i \in 1..Len(s) |-> IF s[i] = 1 THEN 0 ELSE st[i]]

RECURSIVE Gather(_, _, _)
\* 0-based position k of a result with strides rstr -> 0-based position in
\* a source read with strides sstr.
Gather(k, rstr, sstr) ==
    IF rstr = <<>> THEN 0
    ELSE (k \div Head(rstr)) * Head(sstr)
            + Gather(k % Head(rstr), Tail(rstr), Tail(sstr))

RECURSIVE GatherMod(_, _, _, _)
\* The same for a source of shape sh tiled over the result.
GatherMod(k, rstr, sh, sstr) ==
    IF rstr = <<>> THEN 0
    ELSE ((k \div Head(rstr)) % Head(sh)) * Head(sstr)
            + GatherMod(k % Head(rstr), Tail(rstr), Tail(sh), Tail(sstr))

\* tensor.expand(shape): t's shape must broadcast to exactly `shape`.
CanExpand(from, to) ==
    /\ Len(from) <= Len(to)
    /\ Broadcastable(from, to)
    /\ BroadcastShape(from, to) = to

Expand(t, shape) ==
    LET rstr == Strides(shape)
        tstr == BroadcastStrides(t.shape, Len(shape))
    IN  [shape |-> shape,
         data  |-> [k \in 1..Prod(shape) |->
                      t.data[Gather(k - 1, rstr, tstr) + 1]]]

\* tensor.view(shape): same entries in the same order.
View(t, shape) == [shape |-> shape, data |-> t.data]

\* tensor.unsqueeze(0)
Unsqueeze0(t) == View(t, <<1>> \o t.shape)

\* tensor.repeat(*reps), Len(reps) = t.dim()
Repeat(t, reps) ==
    LET shape == [i \in 1..Len(reps) |-> t.shape[i] * reps[i]]
        rstr  == Strides(shape)
        tstr  == Strides(t.shape)
    IN  [shape |-> shape,
         data  |-> [k \in 1..Prod(shape) |->
                      t.data[GatherMod(k - 1, rstr, t.shape, tstr) + 1]]]

\* Elementwise product with broadcasting (shapes known to be compatible).
Mul(a, b) ==
    LET shape == BroadcastShape(a.shape, b.shape)
        rstr  == Strides(shape)
        astr  == BroadcastStrides(a.shape, Len(shape))
        bstr  == BroadcastStrides(b.shape, Len(shape))
    IN  [shape |-> shape,
         data  |-> [k \in 1..Prod(shape) |->
                      a.data[Gather(k - 1, rstr, astr) + 1]
                          * b.data[Gather(k - 1, rstr, bstr) + 1]]]

---------------------------------------------------------------------------
\* The constraint (gpytorch.constraints.Positive and an injected alternative).

RECURSIVE Pow2(_)
Pow2(n) == IF n <= 0 THEN 1 ELSE 2 * Pow2(n - 1)

RECURSIVE Log2(_)
Log2(v) == IF v <= 1 THEN 0 ELSE 1 + Log2(v \div 2)

\* The constrained value 1.0.
Unit == Pow2(MaxRaw)

RawValues == (0 - MaxRaw)..MaxRaw

\* "softplus": exponential below 0, linear above; "exp": exponential.
Constraints == {"softplus", "exp"}

\* transform on one element; both constraints send raw 0 to 1.0.
transform1(c, r) ==
    IF c = "exp" \/ r <= 0 THEN Pow2(r + MaxRaw) ELSE (r + 1) * Unit

\* inverse_transform on one element, computed for v > 0.
inverse_transform1(c, v) ==
    IF c = "exp" \/ v <= Unit THEN Log2(v) - MaxRaw ELSE (v \div Unit) - 1

\* constraint.transform(tensor), elementwise.
transform(c, t) ==
    [shape |-> t.shape,
     data  |-> [k \in 1..Len(t.data) |-> transform1(c, t.data[k])]]

\* constraint.inverse_transform(tensor): elementwise, defined above the
\* lower bound 0; a value at or below it is an InvalidScaleError.
inverse_transform(c, t) ==
    IF \E k \in 1..Len(t.data) : t.data[k] <= 0
    THEN [ok |-> FALSE, tensor |-> t]
    ELSE [ok |-> TRUE,
          tensor |-> [shape |-> t.shape,
                      data  |-> [k \in 1..Len(t.data) |->
                                   inverse_transform1(c, t.data[k])]]]

\* The positive values the model can represent under constraint c.
Constrained(c) == {transform1(c, r) : r \in RawValues}

---------------------------------------------------------------------------
\* Module.initialize(raw_outputscale=val): copy val, expanded to the
\* parameter's shape, into the parameter in place.
initialize(raw, val) ==
    IF CanExpand(val.shape, raw.shape)
    THEN [status |-> "ok", raw |-> Expand(val, raw.shape)]
    ELSE [status |-> "ShapeMismatchError", raw |-> raw]

\* __init__: the parameter is zeros(*batch_shape), or tensor(0.).
init_raw_outputscale(bs) ==
    [shape |-> bs, data |-> [k \in 1..Prod(bs) |-> 0]]

\* Faulty variant: the getter hands out the raw parameter.
outputscale_raw(raw, c) == raw

\* outputscale property (getter).
outputscale(raw, c) == transform(c, raw)

\* torch.as_tensor(value).to(raw_outputscale) for a bare number.
as_tensor(value) == [shape |-> <<>>, data |-> value.data]

\* Faulty variant: a rejected value zeroes the parameter before the error surfaces.
set_outputscale_clobber(raw, c, value) ==
    LET v   == IF ~value.is_tensor THEN as_tensor(value)
               ELSE [shape |-> value.shape, data |-> value.data]
        inv == inverse_transform(c, v)
    IN  IF ~inv.ok
        THEN [status |-> "InvalidScaleError", raw |-> init_raw_outputscale(raw.shape)]
        ELSE initialize(raw, inv.tensor)

\* Faulty variant: the value is stored without inverse_transform.
set_outputscale_no_inverse(raw, c, value) ==
    LET v   == IF ~value.is_tensor THEN as_tensor(value)
               ELSE [shape |-> value.shape, data |-> value.data]
        inv == inverse_transform(c, v)
    IN  IF ~inv.ok
        THEN [status |-> "InvalidScaleError", raw |-> raw]
        ELSE initialize(raw, v)

\* Faulty variant: the parameter is rebound to the new tensor instead of copied into.
set_outputscale_rebind(raw, c, value) ==
    LET v   == IF ~value.is_tensor THEN as_tensor(value)
               ELSE [shape |-> value.shape, data |-> value.data]
        inv == inverse_transform(c, v)
    IN  IF ~inv.ok
        THEN [status |-> "InvalidScaleError", raw |-> raw]
        ELSE IF CanExpand(v.shape, raw.shape)
             THEN [status |-> "ok", raw |-> inv.tensor]
             ELSE [status |-> "ShapeMismatchError", raw |-> raw]

\* _set_outputscale(value): the parameter after the call and how it ended.
set_outputscale(raw, c, value) ==
    LET v   == IF ~value.is_tensor THEN as_tensor(value)
               ELSE [shape |-> value.shape, data |-> value.data]
        inv == inverse_transform(c, v)
    IN  IF ~inv.ok
        THEN [status |-> "InvalidScaleError", raw |-> raw]
        ELSE initialize(raw, inv.tensor)

---------------------------------------------------------------------------
\* The wrapped kernel.  x1 has shape xb \o <<n, d>>, x2 has xb \o <<m, d>>.

BaseKernels == {"const", "ramp"}
Kinds == {"dense", "lazy"}
NoneDims == <<>>
\* batch_dims as the caller passes it: absent, the pair (0, 2), another pair.
BatchDims == {NoneDims, <<0, 2>>, <<2, 0>>}

InputBatch(x) == SubSeq(x, 1, Len(x) - 2)
Rows(x) == x[Len(x) - 1]
LastDim(x) == x[Len(x)]

\* base_kernel.size(x1, x2)
base_size(bk, x1, x2) == InputBatch(x1) \o <<Rows(x1), Rows(x2)>>

\* base_kernel.forward(x1, x2, diag, batch_dims): n (diag) or n x m entries
\* per batch; with batch_dims = (0, 2) the inputs' last dimension becomes a
\* leading batch axis.  "const" is 2.0 everywhere, "ramp" numbers its
\* entries 1, 2, 3, ... in row-major order.
base_forward(bk, kind, x1, x2, diag, batch_dims) ==
    LET lead  == IF batch_dims = <<0, 2>> THEN <<LastDim(x1)>> ELSE <<>>
        shape == lead \o InputBatch(x1)
                      \o (IF diag THEN <<Rows(x1)>> ELSE <<Rows(x1), Rows(x2)>>)
    IN  [kind  |-> kind,
         shape |-> shape,
         data  |-> [k \in 1..Prod(shape) |-> IF bk = "const" THEN 2 ELSE k]]

---------------------------------------------------------------------------
\* ScaleKernel.forward, step by step.

NoResult == [kind |-> "none", shape |-> <<>>, data |-> <<>>]
NoTensor == [shape |-> <<>>, data |-> <<>>]

\* Faulty variant: the new axis is appended instead of inserted in front.
expand_outputscales_trailing(outputscales, x1, batch_dims) ==
    IF batch_dims = <<0, 2>>
    THEN LET shape == outputscales.shape \o <<LastDim(x1)>>
         IN  [shape |-> shape,
              data  |-> [k \in 1..Prod(shape) |->
                           outputscales.data[((k - 1) \div LastDim(x1)) + 1]]]
    ELSE outputscales

\* outputscales.unsqueeze(0).repeat(x1.size(-1), 1, ..., 1) when
\* batch_dims == (0, 2).
expand_outputscales(outputscales, x1, batch_dims) ==
    IF batch_dims = <<0, 2>>
    THEN Repeat(Unsqueeze0(outputscales),
                <<LastDim(x1)>> \o Ones(Len(outputscales.shape)))
    ELSE outputscales

\* Faulty variant: no alignment; the scale keeps its own shape.
align_outputscales_none(outputscales, orig_output) == outputscales

\* outputscales.view(*shape, *([1] * (orig_output.dim() - outputscales.dim())))
align_outputscales(outputscales, orig_output) ==
    View(outputscales,
         outputscales.shape
            \o Ones(Len(orig_output.shape) - Len(outputscales.shape)))

\* delazify(obj): a lazy tensor is evaluated, a dense one returned as is.
delazify(obj) == [obj EXCEPT !.kind = "dense"]

\* Faulty variant: the result is delazified on both paths.
scaled_output_always_dense(orig_output, outputscales, diag) ==
    LET ok == Broadcastable(orig_output.shape, outputscales.shape)
        p  == IF ok THEN Mul(orig_output, outputscales) ELSE NoTensor
    IN  [status |-> IF ok THEN "ok" ELSE "ShapeMismatchError",
         materialized |-> orig_output.kind = "lazy",
         result |-> IF ok THEN [kind |-> "dense", shape |-> p.shape, data |-> p.data]
                    ELSE NoResult]

\* Faulty variant: the base result is returned unscaled.
scaled_output_unscaled(orig_output, outputscales, diag) ==
    LET ok == Broadcastable(orig_output.shape, outputscales.shape)
        k  == IF diag THEN "dense" ELSE orig_output.kind
    IN  [status |-> IF ok THEN "ok" ELSE "ShapeMismatchError",
         materialized |-> diag /\ orig_output.kind = "lazy",
         result |-> IF ok THEN [orig_output EXCEPT !.kind = k] ELSE NoResult]

\* Faulty variant: a shape that does not broadcast is cut to the base result's shape.
scaled_output_lenient(orig_output, outputscales, diag) ==
    LET ok == Broadcastable(orig_output.shape, outputscales.shape)
        p  == IF ok THEN Mul(orig_output, outputscales) ELSE NoTensor
        k  == IF diag THEN "dense" ELSE orig_output.kind
    IN  [status |-> "ok",
         materialized |-> diag /\ orig_output.kind = "lazy",
         result |-> IF ok THEN [kind |-> k, shape |-> p.shape, data |-> p.data]
                    ELSE [orig_output EXCEPT !.kind = k]]

\* if diag: return delazify(orig_output) * outputscales
\* return orig_output.mul(outputscales)
\* The product broadcasts; shapes that do not broadcast raise.
scaled_output(orig_output, outputscales, diag) ==
    LET ok == Broadcastable(orig_output.shape, outputscales.shape)
        p  == IF ok THEN Mul(orig_output, outputscales) ELSE NoTensor
        k  == IF diag THEN delazify(orig_output).kind ELSE orig_output.kind
    IN  [status |-> IF ok THEN "ok" ELSE "ShapeMismatchError",
         materialized |-> diag /\ orig_output.kind = "lazy",
         result |-> IF ok THEN [kind |-> k, shape |-> p.shape, data |-> p.data]
                    ELSE NoResult]

\* forward(x1, x2, batch_dims, diag): what the caller gets, and what the
\* call did on the way (the scale it multiplied by, the calls of the base).
forward(raw, c, bk, kind, x1, x2, batch_dims, diag) ==
    LET outputscales == expand_outputscales(outputscale(raw, c), x1, batch_dims)
        orig_output  == base_forward(bk, kind, x1, x2, diag, batch_dims)
        aligned      == align_outputscales(outputscales, orig_output)
        out          == scaled_output(orig_output, aligned, diag)
    IN  [status       |-> out.status,
         result       |-> out.result,
         materialized |-> out.materialized,
         used         |-> outputscales,
         orig         |-> orig_output,
         base_calls   |-> <<[x1 |-> x1, x2 |-> x2, diag |-> diag,
                             batch_dims |-> batch_dims]>>]

\* size(x1, x2)
size(bk, x1, x2) == base_size(bk, x1, x2)

---------------------------------------------------------------------------
\* The state machine: one decorator, its callers, and the optimizer.

BatchShapes == {<<>>} \cup {<<b>> : b \in 1..MaxBatch} \cup {<<1, MaxBatch>>}

BareNumber(v) == [is_tensor |-> FALSE, shape |-> <<>>, data |-> <<v>>]
TensorValue(sh, dt) == [is_tensor |-> TRUE, shape |-> sh, data |-> dt]

\* Numbers a caller may pass to the setter: every representable positive
\* value, zero and a negative one.
InputNumbers(c) == Constrained(c) \cup {0, 0 - Unit}

\* Entries of the tensors passed to the setter: the smallest and the
\* largest representable positive value, and a negative one.
TensorNumbers(c) == {transform1(c, 0 - MaxRaw), transform1(c, MaxRaw), 0 - Unit}

ValueShapes == {<<>>, <<1>>} \cup BatchShapes

\* A bare number, or a tensor of any of the shapes above.
SetValues(c) ==
    {BareNumber(v) : v \in InputNumbers(c)}
    \cup UNION {{TensorValue(sh, dt) : dt \in [1..Prod(sh) -> TensorNumbers(c)]} :
                    sh \in ValueShapes}

\* The values set between evaluations: the bare numbers transform(MaxRaw) and
\* -1.0, the one-element tensor [transform(-1)], and a tensor of the
\* parameter's own shape holding transform(0), transform(1), ...
EvalValues(c, bs) ==
    {BareNumber(transform1(c, MaxRaw)), BareNumber(0 - Unit),
     TensorValue(<<1>>, <<transform1(c, 0 - 1)>>),
     TensorValue(bs, [k \in 1..Prod(bs) |-> transform1(c, k - 1)]),
     TensorValue(<<MaxBatch + 1>>, [k \in 1..(MaxBatch + 1) |-> Unit])}

NoValue == [is_tensor |-> FALSE, shape |-> <<>>, data |-> <<>>]

NoCall ==
    [op |-> "construct", status |-> "ok", value |-> NoValue,
     x1 |-> <<>>, x2 |-> <<>>, batch_dims |-> NoneDims, diag |-> FALSE,
     orig |-> NoResult, used |-> NoTensor,
     result |-> NoResult, materialized |-> FALSE, base_calls |-> <<>>]

\* ScaleKernel(base_kernel, outputscale_constraint=c, batch_shape=bs)
Init ==
    /\ batch_shape \in BatchShapes
    /\ base_kernel \in BaseKernels
    /\ raw_outputscale_constraint \in Constraints
    /\ raw_outputscale = init_raw_outputscale(batch_shape)
    /\ last = NoCall
    /\ hist = [origin |-> "construct", value |-> NoTensor]

\* The caller is between two calls.
Idle == last.op \in {"construct", "idle"}

\* kernel.outputscale = value
SetOutputscale(value) ==
    LET r == set_outputscale(raw_outputscale, raw_outputscale_constraint, value)
    IN  /\ Idle
        /\ raw_outputscale' = r.raw
        /\ last' = [NoCall EXCEPT !.op = "set", !.status = r.status, !.value = value]
        /\ hist' = IF r.status = "ok"
                   THEN [origin |-> "set",
                         value  |-> Expand(value, raw_outputscale.shape)]
                   ELSE hist
        /\ UNCHANGED <<batch_shape, base_kernel, raw_outputscale_constraint>>

\* An optimizer step (or any other external write) changes an element of
\* the registered parameter in place.
ExternalWrite(k, r) ==
    /\ Idle
    /\ raw_outputscale' = [raw_outputscale EXCEPT !.data[k] = r]
    /\ last' = [NoCall EXCEPT !.op = "write"]
    /\ hist' = [origin |-> "write", value |-> NoTensor]
    /\ UNCHANGED <<batch_shape, base_kernel, raw_outputscale_constraint>>

\* Faulty variant: the expanded scale is written back into the parameter.
EvaluateWritesBack(xb, n, m, d, diag, batch_dims, kind) ==
    LET x1 == xb \o <<n, d>>
        x2 == xb \o <<m, d>>
        f  == forward(raw_outputscale, raw_outputscale_constraint, base_kernel,
                      kind, x1, x2, batch_dims, diag)
    IN  /\ Idle
        /\ diag => m = n
        /\ last' = [NoCall EXCEPT !.op = "evaluate", !.status = f.status,
                       !.x1 = x1, !.x2 = x2, !.batch_dims = batch_dims,
                       !.diag = diag, !.orig = f.orig, !.used = f.used,
                       !.result = f.result,
                       !.materialized = f.materialized,
                       !.base_calls = f.base_calls]
        /\ raw_outputscale' = f.used
        /\ UNCHANGED <<batch_shape, base_kernel, raw_outputscale_constraint, hist>>

\* kernel.forward(x1, x2, batch_dims=batch_dims, diag=diag) on inputs of
\* shapes xb \o <<n, d>> and xb \o <<m, d>>; a diagonal is asked for inputs
\* with as many rows.
Evaluate(xb, n, m, d, diag, batch_dims, kind) ==
    LET x1 == xb \o <<n, d>>
        x2 == xb \o <<m, d>>
        f  == forward(raw_outputscale, raw_outputscale_constraint, base_kernel,
                      kind, x1, x2, batch_dims, diag)
    IN  /\ Idle
        /\ diag => m = n
        /\ last' = [NoCall EXCEPT !.op = "evaluate", !.status = f.status,
                       !.x1 = x1, !.x2 = x2, !.batch_dims = batch_dims,
                       !.diag = diag, !.orig = f.orig, !.used = f.used,
                       !.result = f.result,
                       !.materialized = f.materialized,
                       !.base_calls = f.base_calls]
        /\ UNCHANGED <<batch_shape, base_kernel, raw_outputscale_constraint,
                       raw_outputscale, hist>>

\* kernel.size(x1, x2)
Size(xb, n, m, d) ==
    LET x1 == xb \o <<n, d>>
        x2 == xb \o <<m, d>>
    IN  /\ Idle
        /\ last' = [NoCall EXCEPT !.op = "size", !.x1 = x1, !.x2 = x2,
                       !.result = [kind |-> "shape",
                                   shape |-> size(base_kernel, x1, x2),
                                   data |-> <<>>]]
        /\ UNCHANGED <<batch_shape, base_kernel, raw_outputscale_constraint,
                       raw_outputscale, hist>>

\* The call has returned (or raised) and the caller goes on.
Return ==
    /\ ~Idle
    /\ last' = [NoCall EXCEPT !.op = "idle"]
    /\ UNCHANGED <<batch_shape, base_kernel, raw_outputscale_constraint,
                   raw_outputscale, hist>>

\* The scale accessor under every value and every raw parameter value.
Next ==
    \/ \E value \in SetValues(raw_outputscale_constraint) : SetOutputscale(value)
    \/ \E k \in 1..Len(raw_outputscale.data), r \in RawValues : ExternalWrite(k, r)
    \/ Return

Spec == Init /\ [][Next]_vars

\* Evaluation under every input shape, between calls of the setter.
NextEval ==
    \/ \E value \in EvalValues(raw_outputscale_constraint, batch_shape) :
          SetOutputscale(value)
    \/ \E xb \in BatchShapes, n \in 1..MaxN, m \in 1..MaxN, d \in 1..MaxD,
          diag \in BOOLEAN, batch_dims \in BatchDims, kind \in Kinds :
          Evaluate(xb, n, m, d, diag, batch_dims, kind)
    \/ \E xb \in BatchShapes, n \in 1..MaxN, m \in 1..MaxN, d \in 1..MaxD :
          Size(xb, n, m, d)
    \/ Return

\* ScaleKernel(base_kernel, batch_shape=bs): outputscale_constraint is None
\* and the default constraint is registered.
InitEval == Init /\ raw_outputscale_constraint = "softplus"

SpecEval == InitEval /\ [][NextEval]_vars

---------------------------------------------------------------------------
\* Properties.

\* getOutputscale() in the current state.
Outputscale == outputscale(raw_outputscale, raw_outputscale_constraint)

HasNonPositive(value) == \E k \in 1..Len(value.data) : value.data[k] <= 0

\* The first n axes of shape s (s itself when it has fewer).
Prefix(s, n) == IF n >= Len(s) THEN s ELSE SubSeq(s, 1, n)

\* C1: a call of the setter with a value that has a non-positive entry ends
\* in InvalidScaleError, and across that call raw_outputscale keeps its
\* value and the getter returns what it returned before.
C1_InvalidScaleLeavesRawUnchanged ==
    [][(last'.op = "set" /\ HasNonPositive(last'.value))
          => /\ last'.status = "InvalidScaleError"
             /\ raw_outputscale' = raw_outputscale
             /\ Outputscale' = Outputscale]_vars

\* C1 witness: setOutputscale(-1.0) was rejected while the parameter holds
\* a value other than its initial zero.
C1_Witness ==
    /\ last.op = "set"
    /\ last.status = "InvalidScaleError"
    /\ last.value = BareNumber(0 - Unit)
    /\ \E k \in 1..Len(raw_outputscale.data) : raw_outputscale.data[k] # 0

\* C2: a positive value, bare or a tensor that broadcasts to the
\* parameter's shape, is accepted, and right after the call the getter
\* returns that value broadcast to the parameter's shape.
C2_RoundTrip ==
    last.op = "set" =>
        /\ (~HasNonPositive(last.value)
              /\ CanExpand(last.value.shape, raw_outputscale.shape))
                => last.status = "ok"
        /\ last.status = "ok"
                => /\ Outputscale.shape = batch_shape
                   /\ Outputscale.data = Expand(last.value, batch_shape).data

\* C2 witness: a tensor with two different entries was set on a decorator
\* with a batch of two whose parameter was not at its initial value.
C2_Witness ==
    /\ last.op = "set"
    /\ last.status = "ok"
    /\ last.value.is_tensor
    /\ batch_shape = <<2>>
    /\ last.value.shape = <<2>>
    /\ last.value.data[1] # last.value.data[2]
    /\ hist.origin = "set"

\* C5: in every state every element of getOutputscale() is strictly positive.
C5_OutputscalePositive ==
    \A k \in 1..Len(Outputscale.data) : Outputscale.data[k] > 0

\* C5 witness: an external write has put the most negative raw value in
\* one element and the most positive one in another.
C5_Witness ==
    /\ last.op = "write"
    /\ \E k \in 1..Len(raw_outputscale.data) : raw_outputscale.data[k] = 0 - MaxRaw
    /\ \E k \in 1..Len(raw_outputscale.data) : raw_outputscale.data[k] = MaxRaw

\* C7: raw_outputscale has shape batch_shape in every state, it is all
\* zeros after construction, and only its values change afterwards.
C7_RawShapeFixed ==
    /\ raw_outputscale.shape = batch_shape
    /\ Len(raw_outputscale.data) = Prod(batch_shape)
    /\ last.op = "construct" => \A k \in 1..Len(raw_outputscale.data) :
                                    raw_outputscale.data[k] = 0

\* C7 witness: a bare number was set on a decorator with the largest batch,
\* so the value was broadcast into the parameter.
C7_Witness ==
    /\ last.op = "set"
    /\ last.status = "ok"
    /\ ~last.value.is_tensor
    /\ batch_shape = <<MaxBatch>>
    /\ \A k \in 1..MaxBatch : raw_outputscale.data[k] = MaxRaw

\* The scale a decorator without batch multiplies by.
ScalarScale == Outputscale.data[1]

AllEntries(t, v) == \A k \in 1..Len(t.data) : t.data[k] = v

\* C3: with an empty batch_shape every entry of the result is s times the
\* base result's entry, for diag and for the full matrix, where s is what
\* the getter returns: transform(0) after construction, the value last set
\* afterwards.  With the constant base kernel 2.0 the result is all 2.0
\* after construction and all 6.0 after setOutputscale(3.0).
C3_ScalingLinearity ==
    (last.op = "evaluate" /\ batch_shape = <<>>) =>
        /\ last.status = "ok"
        /\ last.result.shape = last.orig.shape
        /\ \A k \in 1..Len(last.orig.data) :
              last.result.data[k] = ScalarScale * last.orig.data[k]
        /\ hist.origin = "construct"
              => ScalarScale = transform1(raw_outputscale_constraint, 0)
        /\ hist.origin = "set" => ScalarScale = hist.value.data[1]
        /\ (base_kernel = "const" /\ hist.origin = "construct")
              => AllEntries(last.result, 2 * Unit)
        /\ (base_kernel = "const" /\ hist.origin = "set"
                /\ hist.value.data[1] = 3 * Unit)
              => AllEntries(last.result, 6 * Unit)

\* C3 witness: the constant kernel's 3 x 3 matrix evaluated after
\* setOutputscale(3.0).
C3_Witness ==
    /\ last.op = "evaluate"
    /\ batch_shape = <<>>
    /\ base_kernel = "const"
    /\ hist.origin = "set"
    /\ hist.value.data[1] = 3 * Unit
    /\ ~last.diag
    /\ last.orig.shape = <<3, 3>>
    /\ AllEntries(last.result, 6 * Unit)

\* The batch slice (1-based, row-major over the leading axes lead) that
\* entry k of a tensor of shape sh belongs to.
SliceOf(k, sh, lead) == ((k - 1) \div Prod(SubSeq(sh, Len(lead) + 1, Len(sh)))) + 1

AlignedShape ==
    last.used.shape \o Ones(Len(last.orig.shape) - Len(last.used.shape))

\* The base result's leading axes are not the axes of the scale.
BatchMismatch ==
    Prefix(last.orig.shape, Len(last.used.shape)) # last.used.shape

C8_RepresentationPolicy ==
    last.op = "evaluate" =>
        /\ (last.diag /\ last.status = "ok") => last.result.kind = "dense"
        /\ (~last.diag /\ last.status = "ok")
              => last.result.kind = last.orig.kind
        /\ ~last.diag => ~last.materialized

\* C8 witness: a lazy base result came back lazy from a full evaluation.
C8_Witness ==
    /\ last.op = "evaluate"
    /\ ~last.diag
    /\ last.orig.kind = "lazy"
    /\ last.status = "ok"
    /\ last.result.kind = "lazy"

\* C9: a call of evaluate or size changes none of raw_outputscale, the
\* constraint, the base kernel and batch_shape, whether it returns or
\* raises; raw_outputscale changes only in a set or an external write; and
\* the same evaluate call made again from the state it left returns the
\* same result.
C9_EvaluateHasNoSideEffect ==
    [][/\ last'.op \in {"evaluate", "size"}
            => UNCHANGED <<raw_outputscale, raw_outputscale_constraint,
                           base_kernel, batch_shape>>
       /\ raw_outputscale' # raw_outputscale => last'.op \in {"set", "write"}
       /\ last'.op = "evaluate"
            => LET again == forward(raw_outputscale', raw_outputscale_constraint',
                                    base_kernel', last'.orig.kind, last'.x1,
                                    last'.x2, last'.batch_dims, last'.diag)
               IN  /\ again.status = last'.status
                   /\ again.result = last'.result]_vars

\* C9 witness: an evaluation with batch_dims = (0, 2) raised, on a
\* decorator whose parameter had been set.
C9_Witness ==
    /\ last.op = "evaluate"
    /\ last.batch_dims = <<0, 2>>
    /\ last.status = "ShapeMismatchError"
    /\ hist.origin = "set"
    /\ \E k \in 1..Len(raw_outputscale.data) : raw_outputscale.data[k] # 0

\* C10: with batch_dims = (0, 2) the scale multiplied by has shape
\* <<d>> \o batch_shape, d the size of x1's last dimension, and each of its
\* d leading slices is the getter's value; with any other batch_dims it is
\* the getter's value, of shape batch_shape.  Either way the base kernel is
\* called once, with the caller's x1, x2, diag and batch_dims.
C10_BatchDimsExpansion ==
    last.op = "evaluate" =>
        LET d == LastDim(last.x1)
            p == Len(Outputscale.data)
        IN  /\ last.batch_dims = <<0, 2>> =>
                 /\ last.used.shape = <<d>> \o batch_shape
                 /\ Len(last.used.data) = d * p
                 /\ \A j \in 1..d :
                       SubSeq(last.used.data, (j - 1) * p + 1, j * p)
                           = Outputscale.data
            /\ last.batch_dims # <<0, 2>> =>
                 /\ last.used.shape = batch_shape
                 /\ last.used.data = Outputscale.data
            /\ last.base_calls = <<[x1 |-> last.x1, x2 |-> last.x2,
                                    diag |-> last.diag,
                                    batch_dims |-> last.batch_dims]>>

\* C10 witness: batch_dims = (0, 2) with d = 2 on a batch of two with two
\* different scales.
C10_Witness ==
    /\ last.op = "evaluate"
    /\ last.batch_dims = <<0, 2>>
    /\ LastDim(last.x1) = 2
    /\ batch_shape = <<2>>
    /\ Outputscale.data[1] # Outputscale.data[2]
    /\ last.used.shape = <<2, 2>>

============================================================================
